---- MODULE Spec2Model ----
(***************************************************************************)
(* book_flight.py: a command-line client that parses its arguments,        *)
(* formats a search payload, issues one GET to the flight search API,      *)
(* takes the booking token of the first result, issues one POST to the     *)
(* booking server and prints the PNR.                                      *)
(*                                                                         *)
(* Strings that the program converts (the --date value, the --return       *)
(* value) are sequences of one-character strings, so that strptime,        *)
(* strftime and int are computed character by character.  Python values    *)
(* are tagged records: None, StrV(chars), IntV(n).  A dict is a function   *)
(* from its keys to values; dict.pop removes a key from the domain.        *)
(***************************************************************************)
EXTENDS Integers, Sequences, FiniteSets, TLC

VARIABLES
    argv,              \* sys.argv[1:], a sequence of option tokens
    pc,                \* position of main()
    args,              \* the Namespace's __dict__ (the one dict object behind args)
    parsed_args,       \* history: the dict as parse_args() returned it
    search_payload,    \* what format_payload_for_get_request returned
    requests,          \* the network requests issued so far, in order
    flight_search,     \* the search server's answer to the GET
    booking_token,     \* what find_flight returned
    booking,           \* the booking server's answer to the POST
    pnr_number,        \* what book_flight returned
    stdout,            \* one entry per print() call: the sequence of its parts
    stderr,            \* usage errors and tracebacks
    exit_code          \* the process exit status, -1 while the process runs

vars == <<argv, pc, args, parsed_args, search_payload, requests,
          flight_search, booking_token, booking, pnr_number, stdout, stderr, exit_code>>

-----------------------------------------------------------------------------
(* Bounds of the model. *)

\* optional flags on a command line of the whole pipeline
MaxFlags == 3
\* optional flags on a command line of the formatter runs
MaxFormatFlags == 1
\* length of the data list of a search response, and largest _results
MaxResults == 2

-----------------------------------------------------------------------------
(* Python values. *)

None == [t |-> "None"]
StrV(s) == [t |-> "str", v |-> s]
IntV(n) == [t |-> "int", v |-> n]

\* a variable that holds nothing yet
NotSet == <<>>

-----------------------------------------------------------------------------
(* Characters and numbers. *)

Digits == {"0", "1", "2", "3", "4", "5", "6", "7", "8", "9"}
NonZeroDigits == Digits \ {"0"}
DigitChars == <<"0", "1", "2", "3", "4", "5", "6", "7", "8", "9">>
DigitVal(c) == CHOOSE n \in 0..9 : DigitChars[n + 1] = c

\* the value of a non-empty string of decimal digits
RECURSIVE ToInt(_)
ToInt(s) ==
    IF Len(s) = 0 THEN 0
    ELSE 10 * ToInt(SubSeq(s, 1, Len(s) - 1)) + DigitVal(s[Len(s)])

\* the decimal digits of n >= 0, without padding
RECURSIVE Decimal(_)
Decimal(n) ==
    IF n < 10 THEN <<DigitChars[n + 1]>>
    ELSE Append(Decimal(n \div 10), DigitChars[(n % 10) + 1])

\* the decimal digits of n >= 0, zero-padded to at least w characters
RECURSIVE Pad(_, _)
Pad(n, w) ==
    LET d == Decimal(n) IN
    IF Len(d) >= w THEN d ELSE <<"0">> \o Pad(n, w - 1)

-----------------------------------------------------------------------------
(* datetime.datetime.strptime, as CPython's _strptime computes it: the     *)
(* format becomes a regular expression, one group per directive, whose     *)
(* alternatives are tried in order; the match need not reach the end of    *)
(* the string (that is checked afterwards); the fields must form a date.   *)

\* '%Y-%m-%d' and '%d/%m/%Y' as sequences of directives and literals
FMT_ISO == <<"%Y", "-", "%m", "-", "%d">>
FMT_API == <<"%d", "/", "%m", "/", "%Y">>

\* _strptime.TimeRE: the alternatives of each directive, in order, each a
\* sequence of character classes
\*   %Y  (?P<Y>\d\d\d\d)
\*   %m  (?P<m>1[0-2]|0[1-9]|[1-9])
\*   %d  (?P<d>3[0-1]|[1-2]\d|0[1-9]|[1-9]| [1-9])
TimeRE(directive) ==
    CASE directive = "%Y" -> << <<Digits, Digits, Digits, Digits>> >>
      [] directive = "%m" -> << <<{"1"}, {"0", "1", "2"}>>,
                                <<{"0"}, NonZeroDigits>>,
                                <<NonZeroDigits>> >>
      [] directive = "%d" -> << <<{"3"}, {"0", "1"}>>,
                                <<{"1", "2"}, Digits>>,
                                <<{"0"}, NonZeroDigits>>,
                                <<NonZeroDigits>>,
                                <<{" "}, NonZeroDigits>> >>

IsDirective(item) == item \in {"%Y", "%m", "%d"}

\* alternative alt matches s at position i
AltMatches(alt, s, i) ==
    /\ i + Len(alt) - 1 <= Len(s)
    /\ \A k \in 1..Len(alt) : s[i + k - 1] \in alt[k]

NoMatch == [found |-> FALSE, end |-> 0, groups |-> <<>>]

\* re.match of the format's items k.. against s from position i, with
\* backtracking over the alternatives: the first alternative, in order, after
\* which the rest of the pattern matches
RECURSIVE regex_match(_, _, _, _)
regex_match(format, s, k, i) ==
    IF k > Len(format) THEN [found |-> TRUE, end |-> i, groups |-> <<>>]
    ELSE IF ~IsDirective(format[k]) THEN
        IF i <= Len(s) /\ s[i] = format[k]
        THEN regex_match(format, s, k + 1, i + 1)
        ELSE NoMatch
    ELSE
        LET alts == TimeRE(format[k])
            good == {a \in 1..Len(alts) :
                        /\ AltMatches(alts[a], s, i)
                        /\ regex_match(format, s, k + 1, i + Len(alts[a])).found}
        IN IF good = {} THEN NoMatch
           ELSE LET a == CHOOSE x \in good : \A y \in good : x <= y
                    rest == regex_match(format, s, k + 1, i + Len(alts[a]))
                IN [found |-> TRUE, end |-> rest.end,
                    groups |-> (format[k] :> SubSeq(s, i, i + Len(alts[a]) - 1))
                               @@ rest.groups]

\* the digits of a %d group, whose alternative ' [1-9]' starts with a space
GroupInt(g) == IF g[1] = " " THEN ToInt(Tail(g)) ELSE ToInt(g)

is_leap(year) == (year % 4 = 0) /\ ((year % 100 # 0) \/ (year % 400 = 0))

days_in_month(year, month) ==
    IF month = 2 THEN (IF is_leap(year) THEN 29 ELSE 28)
    ELSE IF month \in {4, 6, 9, 11} THEN 30 ELSE 31

\* the datetime constructor's range checks (MINYEAR = 1, MAXYEAR = 9999)
valid_date(year, month, day) ==
    /\ year \in 1..9999
    /\ month \in 1..12
    /\ day \in 1..days_in_month(year, month)

ValueError == [ok |-> FALSE, year |-> 0, month |-> 0, day |-> 0]

strptime(data_string, format) ==
    LET found == regex_match(format, data_string, 1, 1) IN
    IF ~found.found THEN ValueError                         \* does not match format
    ELSE IF found.end # Len(data_string) + 1 THEN ValueError \* unconverted data remains
    ELSE LET year == ToInt(found.groups["%Y"])
             month == ToInt(found.groups["%m"])
             day == GroupInt(found.groups["%d"])
         IN IF valid_date(year, month, day)
            THEN [ok |-> TRUE, year |-> year, month |-> month, day |-> day]
            ELSE ValueError                                 \* out of range

\* datetime.strftime: %d and %m are two digits; %Y is what the platform's C
\* library writes, four digits zero-padded or the bare decimal number
RECURSIVE strftime(_, _, _)
strftime(dt, format, pads_Y) ==
    IF Len(format) = 0 THEN <<>>
    ELSE LET item == Head(format)
             text == CASE item = "%d" -> Pad(dt.day, 2)
                       [] item = "%m" -> Pad(dt.month, 2)
                       [] item = "%Y" -> IF pads_Y THEN Pad(dt.year, 4)
                                         ELSE Decimal(dt.year)
                       [] OTHER -> <<item>>
         IN text \o strftime(dt, Tail(format), pads_Y)

-----------------------------------------------------------------------------
(* create_arg_parser and ArgumentParser.parse_args.  A token of argv is an *)
(* option string with its value (empty for a flag).                        *)

Token(opt, val) == [opt |-> opt, val |-> val]

\* the attribute each option stores to
dest(opt) ==
    CASE opt = "--date" -> "dateFrom"
      [] opt = "--from" -> "flyFrom"
      [] opt = "--to" -> "to"
      [] opt = "--one-way" -> "typeFlight"
      [] opt = "--return" -> "daysInDestination"
      [] opt = "--cheapest" -> "sort"
      [] opt = "--shortest" -> "sort"

\* the options declared required=True
required_options == {"--date", "--from", "--to"}

\* a parser whose second pair of flags was added to the parser itself
one_exclusive_group == { {"--one-way", "--return"} }

\* the two add_mutually_exclusive_group() groups
mutually_exclusive_groups ==
    { {"--one-way", "--return"}, {"--cheapest", "--shortest"} }

\* the options an option may not be combined with
action_conflicts(opt) ==
    UNION {g \ {opt} : g \in {h \in mutually_exclusive_groups : opt \in h}}

\* the namespace before any option is consumed: every dest at its default
default_namespace ==
    [k \in {"dateFrom", "flyFrom", "to", "typeFlight", "daysInDestination", "sort"} |->
        IF k = "sort" THEN StrV("price") ELSE None]

\* type=int: int() of the option's value
int_type(s) ==
    LET body == IF Len(s) > 0 /\ s[1] \in {"-", "+"} THEN Tail(s) ELSE s
        ok == Len(body) > 0 /\ \A i \in 1..Len(body) : body[i] \in Digits
    IN [ok |-> ok,
        value |-> IF ~ok THEN 0
                  ELSE IF s[1] = "-" THEN 0 - ToInt(body) ELSE ToInt(body)]

\* the value an option stores
stored_value(tok) ==
    CASE tok.opt = "--one-way" -> StrV("oneway")
      [] tok.opt = "--cheapest" -> StrV("price")
      [] tok.opt = "--shortest" -> StrV("duration")
      [] tok.opt = "--return" -> IntV(int_type(tok.val).value)
      [] OTHER -> StrV(tok.val)

\* consume_optional / take_action on one token: convert the value, then
\* check the conflicts with the options seen so far, then run the action
\* (the help action prints the help and exits at once).  Every option given
\* counts as seen: its value is never the identical default object.
take_action(st, tok) ==
    IF st.status # "running" THEN st
    ELSE IF tok.opt = "--return" /\ ~int_type(tok.val).ok
        THEN [st EXCEPT !.status = "error"]
    ELSE IF action_conflicts(tok.opt) \cap st.seen # {}
        THEN [st EXCEPT !.status = "error"]
    ELSE IF tok.opt = "-h"
        THEN [st EXCEPT !.status = "help"]
    ELSE [st EXCEPT !.ns = [st.ns EXCEPT ![dest(tok.opt)] = stored_value(tok)],
                    !.seen = st.seen \cup {tok.opt}]

RECURSIVE consume(_, _)
consume(st, tokens) ==
    IF Len(tokens) = 0 THEN st
    ELSE consume(take_action(st, Head(tokens)), Tail(tokens))

\* parse_args: "ok" with the namespace, "help" (exit 0) or "error" (exit 2)
parse_args(arg_strings) ==
    LET st == consume([status |-> "running", ns |-> default_namespace, seen |-> {}],
                      arg_strings)
    IN IF st.status # "running" THEN st
       ELSE IF ~(required_options \subseteq st.seen) THEN [st EXCEPT !.status = "error"]
       ELSE [st EXCEPT !.status = "ok"]

-----------------------------------------------------------------------------
(* How a call ends: it returns a value, calls sys.exit(code) after some    *)
(* print() calls, or raises an exception nothing catches.                  *)

Return(value) == [kind |-> "return", value |-> value, code |-> -1, out |-> <<>>]
SysExit(code, out) == [kind |-> "exit", value |-> NotSet, code |-> code, out |-> out]
Raise(exception) == [kind |-> "raise", value |-> exception, code |-> 1, out |-> <<>>]

-----------------------------------------------------------------------------
(* format_payload_for_get_request *)

\* vars(args) is the Namespace's own __dict__, not a copy of it: every
\* write to payload is a write to args
vars_(a) == a

\* "if not args.daysInDestination" in place of "is None"
is_falsy(value) == value = None \/ value = IntV(0)

is_None(value) == value = None

\* dict.pop(key, None)
pop(d, key) == [k \in DOMAIN d \ {key} |-> d[k]]

\* the handler without its sys.exit(2): the message is printed and the
\* payload returned
date_ValueError_no_exit(payload) ==
    [dict |-> payload,
     end |-> [kind |-> "return", value |-> payload, code |-> -1,
              out |-> << <<"Incorrect date format. Enter date of departure as YYYY-MM-DD.">> >>]]

\* except ValueError: print the message and sys.exit(2)
date_ValueError(payload) ==
    [dict |-> payload,
     end |-> SysExit(2, << <<"Incorrect date format. Enter date of departure as YYYY-MM-DD.">> >>)]

\* the dict as the call leaves it, and how the call ends
format_payload_for_get_request(a, pads_Y) ==
    LET payload == vars_(a)
        typed == IF is_None(a["daysInDestination"])
                 THEN pop([payload EXCEPT !["typeFlight"] = StrV("oneway")],
                          "daysInDestination")
                 ELSE [payload EXCEPT !["typeFlight"] = StrV("return")]
        dt == strptime(typed["dateFrom"].v, FMT_ISO)
    IN IF dt.ok
       THEN LET dated == [typed EXCEPT !["dateFrom"] = StrV(strftime(dt, FMT_API, pads_Y))]
            IN [dict |-> dated, end |-> Return(dated)]
       ELSE date_ValueError(typed)

-----------------------------------------------------------------------------
(* The servers' answers.  A call of requests raises ConnectionError,       *)
(* raises another RequestException, or returns a response whose body is    *)
(* JSON or is not.                                                         *)

Response(kind, body) == [kind |-> kind, body |-> body]

\* sys.exit(2) in place of sys.exit(1)
request_server_response_exit2(response) ==
    IF response.kind = "ConnectionError"
    THEN SysExit(2, << <<"No response from server. Check your internet connection.">>,
                       <<"ConnectionError">> >>)
    ELSE IF response.kind = "RequestException" THEN Raise("RequestException")
    ELSE Return(response)

request_server_response(response) ==
    IF response.kind = "ConnectionError"
    THEN SysExit(1, << <<"No response from server. Check your internet connection.">>,
                       <<"ConnectionError">> >>)
    ELSE IF response.kind = "RequestException" THEN Raise("RequestException")
    ELSE Return(response)

parse_json(json_response) ==
    IF json_response.kind = "json" THEN Return(json_response.body)
    ELSE SysExit(1, << <<"Invalid response from server. Server is probably offline.",
                         "Server responded with ", "<Response>">> >>)

\* "< 0" in place of "== 0"
no_results_negative(flight_search_results) == flight_search_results["_results"] < 0

no_results(flight_search_results) == flight_search_results["_results"] = 0

\* data[-1] in place of data[0]
last_result(data) == data[Len(data)]

first_result(data) == data[1]

find_flight(response) ==
    LET got == request_server_response(response) IN
    IF got.kind # "return" THEN got
    ELSE LET parsed == parse_json(got.value) IN
    IF parsed.kind # "return" THEN parsed
    ELSE LET flight_search_results == parsed.value IN
    IF "_results" \notin DOMAIN flight_search_results THEN Raise("KeyError")
    ELSE IF no_results(flight_search_results)
        THEN SysExit(1, << <<"No flights found. Check spelling of parameters. Use -h or --help for more information.">> >>)
    ELSE IF "data" \notin DOMAIN flight_search_results THEN Raise("KeyError")
    ELSE IF Len(flight_search_results["data"]) = 0 THEN Raise("IndexError")
    ELSE IF "booking_token" \notin DOMAIN first_result(flight_search_results["data"])
        THEN Raise("KeyError")
    ELSE Return(first_result(flight_search_results["data"])["booking_token"])

\* the hardcoded settings
passenger_info ==
    [title |-> "Mr", firstName |-> "A", documentID |-> "0", birthday |-> "2016-05-20",
     email |-> "a@a.com", lastName |-> "B"]
currency == "EUR"

\* the token and the currency in each other's place
booking_payload_swapped(token, pass_info, currency_name) ==
    [currency |-> token, booking_token |-> currency_name, passengers |-> pass_info]

booking_payload(token, pass_info, currency_name) ==
    [currency |-> currency_name, booking_token |-> token, passengers |-> pass_info]

\* "if booking_confirmation["status"]:" in place of the comparison
is_confirmed_truthy(booking_confirmation) == booking_confirmation["status"] # ""

is_confirmed(booking_confirmation) == booking_confirmation["status"] = "confirmed"

book_flight(response) ==
    LET got == request_server_response(response) IN
    IF got.kind # "return" THEN got
    ELSE IF got.value.kind # "json"
        THEN SysExit(1, << <<"Invalid response from booking server.",
                             "Server responded with ", "<Response>">> >>)
    ELSE LET booking_confirmation == got.value.body IN
    IF "status" \notin DOMAIN booking_confirmation THEN Raise("KeyError")
    ELSE IF is_confirmed(booking_confirmation)
        THEN IF "pnr" \in DOMAIN booking_confirmation
             THEN Return(booking_confirmation["pnr"])
             ELSE Raise("KeyError")
    ELSE SysExit(1, << <<"Booking not successful", booking_confirmation>> >>)

-----------------------------------------------------------------------------
(* The inputs: command lines and server answers. *)

SeqsUpTo(S, n) == UNION {[1..k -> S] : k \in 0..n}

FlagTokens ==
    { Token("-h", <<>>), Token("--one-way", <<>>), Token("--cheapest", <<>>),
      Token("--shortest", <<>>), Token("--return", <<"0">>), Token("--return", <<"7">>),
      Token("--return", <<"x">>) }

NYC == <<"N", "Y", "C">>
LON == <<"L", "O", "N">>

IsoText(y, m, d) == y \o <<"-">> \o m \o <<"-">> \o d
ApiText(d, m, y) == d \o <<"/">> \o m \o <<"/">> \o y

\* 2024-06-01, 2023-02-29, 01/06/2024
PipelineDates ==
    { IsoText(Pad(2024, 4), Pad(6, 2), Pad(1, 2)),
      IsoText(Pad(2023, 4), Pad(2, 2), Pad(29, 2)),
      ApiText(Pad(1, 2), Pad(6, 2), Pad(2024, 4)) }

Years == {0, 1, 999, 1000, 1900, 2000, 2023, 2024, 9999}
MonthTexts == UNION {{Pad(m, 2), Decimal(m)} : m \in {0, 1, 2, 6, 9, 12, 13}}
DayTexts == UNION {{Pad(d, 2), Decimal(d)} : d \in {0, 1, 9, 28, 29, 30, 31, 32}}

\* every combination of the year, month and day texts, and some texts of
\* another shape: empty, 2024-06-011, 2024-06- 1, 12024-06-01, 01/06/2024,
\* 2024/06/01, 2024-06
FormatDates ==
    {IsoText(Pad(y, 4), m, d) : y \in Years, m \in MonthTexts, d \in DayTexts}
    \cup { <<>>,
           IsoText(Pad(2024, 4), Pad(6, 2), Pad(11, 3)),
           IsoText(Pad(2024, 4), Pad(6, 2), <<" ", "1">>),
           IsoText(Pad(12024, 4), Pad(6, 2), Pad(1, 2)),
           ApiText(Pad(1, 2), Pad(6, 2), Pad(2024, 4)),
           ApiText(Pad(2024, 4), Pad(6, 2), Pad(1, 2)),
           Pad(2024, 4) \o <<"-">> \o Pad(6, 2) }

\* the flags, then --date, --from and --to, or a command line without --to
CommandLines(dates, max_flags) ==
    {flags \o rest :
        flags \in SeqsUpTo(FlagTokens, max_flags),
        rest \in {<<Token("--date", d), Token("--from", NYC), Token("--to", LON)>> :
                      d \in dates}
                 \cup {<<Token("--date", IsoText(Pad(2024, 4), Pad(6, 2), Pad(1, 2))),
                         Token("--from", NYC)>>}}

Tokens == {"TOK123", "TOK456"}
PNRs == {"ABC987", "XYZ123"}

\* the flight records, each with its booking token
Flights == {("booking_token" :> t) : t \in Tokens}

\* the JSON objects a search may answer: _results and data, or one of them;
\* the data are flight records, or one record without a booking token
SearchBodies ==
    LET lists == SeqsUpTo(Flights, MaxResults) \cup {<< <<>> >>} IN
    {("_results" :> n) @@ ("data" :> d) : n \in 0..MaxResults, d \in lists}
    \cup {("data" :> d) : d \in lists}
    \cup {("_results" :> n) : n \in 0..MaxResults}

\* the JSON objects a booking may answer: status and pnr, or fewer
BookingBodies ==
    {("status" :> s) @@ ("pnr" :> p) : s \in {"confirmed", "failed"}, p \in PNRs}
    \cup {("status" :> s) : s \in {"confirmed", "failed"}}
    \cup {("pnr" :> p) : p \in PNRs}
    \cup {<<>>}

Failures ==
    { Response("ConnectionError", <<>>), Response("RequestException", <<>>),
      Response("text", <<>>) }

SearchResponses == Failures \cup {Response("json", b) : b \in SearchBodies}
BookingResponses == Failures \cup {Response("json", b) : b \in BookingBodies}

-----------------------------------------------------------------------------
(* main *)

SEARCH_URL == "https://api.skypicker.com/flights?"
BOOKING_URL == "http://37.139.6.125:8080/booking"

Request(method, url, params, json) ==
    [method |-> method, url |-> url, params |-> params, json |-> json]

\* the process ends: sys.exit(code) after the prints, or a traceback and
\* exit status 1 for an exception nothing catches
Terminate(end) ==
    /\ pc' = "done"
    /\ stdout' = stdout \o end.out
    /\ stderr' = IF end.kind = "raise"
                 THEN Append(stderr, <<"Traceback", end.value>>)
                 ELSE stderr
    /\ exit_code' = end.code

Start(lines) ==
    /\ argv \in lines
    /\ pc = "parse_args"
    /\ args = NotSet
    /\ parsed_args = NotSet
    /\ search_payload = NotSet
    /\ requests = <<>>
    /\ flight_search = NotSet
    /\ booking_token = NotSet
    /\ booking = NotSet
    /\ pnr_number = NotSet
    /\ stdout = <<>>
    /\ stderr = <<>>
    /\ exit_code = -1

Init == Start(CommandLines(PipelineDates, MaxFlags))

\* args = create_arg_parser().parse_args()
ParseArgs ==
    /\ pc = "parse_args"
    /\ LET st == parse_args(argv) IN
        \/ /\ st.status = "ok"
           /\ args' = st.ns
           /\ parsed_args' = st.ns
           /\ pc' = "format_payload"
           /\ UNCHANGED <<stdout, stderr, exit_code>>
        \/ /\ st.status = "help"
           /\ stdout' = Append(stdout, <<"usage">>)
           /\ exit_code' = 0
           /\ pc' = "done"
           /\ UNCHANGED <<args, parsed_args, stderr>>
        \/ /\ st.status = "error"
           /\ stderr' = Append(stderr, <<"usage", "error">>)
           /\ exit_code' = 2
           /\ pc' = "done"
           /\ UNCHANGED <<args, parsed_args, stdout>>
    /\ UNCHANGED <<argv, search_payload, requests, flight_search,
                   booking_token, booking, pnr_number>>

\* search_payload = format_payload_for_get_request(args); pads_Y is the
\* platform the program runs on (see strftime)
FormatPayload ==
    /\ pc = "format_payload"
    /\ \E pads_Y \in BOOLEAN :
       LET r == format_payload_for_get_request(args, pads_Y) IN
        /\ args' = r.dict
        /\ \/ /\ r.end.kind = "return"
              /\ search_payload' = r.end.value
              /\ pc' = "find_flight"
              /\ stdout' = stdout \o r.end.out
              /\ UNCHANGED <<stderr, exit_code>>
           \/ /\ r.end.kind # "return"
              /\ Terminate(r.end)
              /\ UNCHANGED search_payload
    /\ UNCHANGED <<argv, parsed_args, requests, flight_search,
                   booking_token, booking, pnr_number>>

\* find_flight: requests.get(url, params=payload) is called
FindFlightRequest ==
    /\ pc = "find_flight"
    /\ requests' = Append(requests, Request("GET", SEARCH_URL, search_payload, NotSet))
    /\ pc' = "find_flight_response"
    /\ UNCHANGED <<argv, args, parsed_args, search_payload,
                   flight_search, booking_token, booking, pnr_number, stdout, stderr,
                   exit_code>>

\* find_flight: the call ends, and the rest of find_flight runs
FindFlightResponse ==
    /\ pc = "find_flight_response"
    /\ \E response \in SearchResponses :
        /\ flight_search' = response
        /\ LET end == find_flight(response) IN
            \/ /\ end.kind = "return"
               /\ booking_token' = end.value
               /\ pc' = "book_flight"
               /\ UNCHANGED <<stdout, stderr, exit_code>>
            \/ /\ end.kind # "return"
               /\ Terminate(end)
               /\ UNCHANGED booking_token
    /\ UNCHANGED <<argv, args, parsed_args, search_payload, requests,
                   booking, pnr_number>>

\* book_flight: requests.post(url, json=booking_payload) is called
BookFlightRequest ==
    /\ pc = "book_flight"
    /\ requests' = Append(requests,
                          Request("POST", BOOKING_URL, NotSet,
                                  booking_payload(booking_token, passenger_info, currency)))
    /\ pc' = "book_flight_response"
    /\ UNCHANGED <<argv, args, parsed_args, search_payload,
                   flight_search, booking_token, booking, pnr_number, stdout, stderr,
                   exit_code>>

\* book_flight: the call ends, and the rest of book_flight runs
BookFlightResponse ==
    /\ pc = "book_flight_response"
    /\ \E response \in BookingResponses :
        /\ booking' = response
        /\ LET end == book_flight(response) IN
            \/ /\ end.kind = "return"
               /\ pnr_number' = end.value
               /\ pc' = "print"
               /\ UNCHANGED <<stdout, stderr, exit_code>>
            \/ /\ end.kind # "return"
               /\ Terminate(end)
               /\ UNCHANGED pnr_number
    /\ UNCHANGED <<argv, args, parsed_args, search_payload, requests,
                   flight_search, booking_token>>

\* print(pnr_number), and main returns
PrintPnr ==
    /\ pc = "print"
    /\ stdout' = Append(stdout, <<pnr_number>>)
    /\ exit_code' = 0
    /\ pc' = "done"
    /\ UNCHANGED <<argv, args, parsed_args, search_payload, requests,
                   flight_search, booking_token, booking, pnr_number, stderr>>

Next ==
    \/ ParseArgs
    \/ FormatPayload
    \/ FindFlightRequest
    \/ FindFlightResponse
    \/ BookFlightRequest
    \/ BookFlightResponse
    \/ PrintPnr

Spec == Init /\ [][Next]_vars

\* the argument parser and the formatter alone, on many more dates
InitFormat == Start(CommandLines(FormatDates, MaxFormatFlags))

NextFormat == ParseArgs \/ FormatPayload

SpecFormat == InitFormat /\ [][NextFormat]_vars

-----------------------------------------------------------------------------
(* What a run was given and what it met, read from the command line and    *)
(* the servers' answers.                                                   *)

Given(opt) == \E i \in DOMAIN argv : argv[i].opt = opt

\* the value of the last occurrence of an option that is given
LastValue(opt) ==
    LET last == CHOOSE i \in DOMAIN argv :
                    /\ argv[i].opt = opt
                    /\ \A j \in DOMAIN argv : argv[j].opt = opt => j <= i
    IN argv[last].val

IsIntegerText(s) ==
    LET body == IF Len(s) > 0 /\ s[1] \in {"-", "+"} THEN Tail(s) ELSE s
    IN Len(body) > 0 /\ \A i \in 1..Len(body) : body[i] \in Digits

Excludes(a, b) ==
    \/ {a, b} = {"--one-way", "--return"}
    \/ {a, b} = {"--cheapest", "--shortest"}

\* token i is the second of two flags that exclude each other
ConflictAt(i) == \E j \in 1..(i - 1) : Excludes(argv[i].opt, argv[j].opt)
HasConflict == \E i \in DOMAIN argv : ConflictAt(i)

\* token i is one the parser rejects
RejectedAt(i) ==
    \/ ConflictAt(i)
    \/ argv[i].opt = "--return" /\ ~IsIntegerText(argv[i].val)

\* a -h stands before every token the parser rejects
HelpRun ==
    \E i \in DOMAIN argv :
        /\ argv[i].opt = "-h"
        /\ \A j \in 1..(i - 1) : ~RejectedAt(j)

BadArguments ==
    /\ ~HelpRun
    /\ \/ \E i \in DOMAIN argv : RejectedAt(i)
       \/ ~Given("--date") \/ ~Given("--from") \/ ~Given("--to")

BadDate ==
    /\ ~HelpRun
    /\ ~BadArguments
    /\ ~strptime(LastValue("--date"), FMT_ISO).ok

Parsed == parsed_args # NotSet
Formatted == search_payload # NotSet
\* format_payload_for_get_request has been called and has ended
FormatCalled == Parsed /\ pc # "format_payload"

Gets == {i \in DOMAIN requests : requests[i].method = "GET"}
Posts == {i \in DOMAIN requests : requests[i].method = "POST"}

SearchAnswer(kind) == flight_search # NotSet /\ flight_search.kind = kind
BookingAnswer(kind) == booking # NotSet /\ booking.kind = kind

HasCount == SearchAnswer("json") /\ "_results" \in DOMAIN flight_search.body
ZeroResults == HasCount /\ flight_search.body["_results"] = 0
SomeResults == HasCount /\ flight_search.body["_results"] # 0

\* the search response has a first flight with a booking token
HasFirstToken ==
    /\ SearchAnswer("json")
    /\ "data" \in DOMAIN flight_search.body
    /\ Len(flight_search.body["data"]) >= 1
    /\ "booking_token" \in DOMAIN flight_search.body["data"][1]
FirstToken == flight_search.body["data"][1]["booking_token"]

HasStatus == BookingAnswer("json") /\ "status" \in DOMAIN booking.body
NotConfirmed == HasStatus /\ booking.body["status"] # "confirmed"
Confirmed == HasStatus /\ booking.body["status"] = "confirmed"
ConfirmedWithPnr == Confirmed /\ "pnr" \in DOMAIN booking.body

PnrPrinted == \E i \in DOMAIN stdout : \E p \in PNRs : stdout[i] = <<p>>

ConnectionFailure == SearchAnswer("ConnectionError") \/ BookingAnswer("ConnectionError")
Undecodable == SearchAnswer("text") \/ BookingAnswer("text")

\* an exception that nothing catches: a request exception other than
\* ConnectionError, or a JSON object without the field the program reads
Uncaught ==
    \/ SearchAnswer("RequestException")
    \/ BookingAnswer("RequestException")
    \/ SearchAnswer("json") /\ ~HasCount
    \/ SomeResults /\ ~HasFirstToken
    \/ BookingAnswer("json") /\ ~HasStatus
    \/ Confirmed /\ ~ConfirmedWithPnr

Success == SomeResults /\ Confirmed /\ PnrPrinted

-----------------------------------------------------------------------------
(* The claims. *)

\* C1: when the search response is JSON whose _results is 0, the run has
\* ended with exit code 1 and no booking POST has been issued (the run has
\* ended, so none is issued later).
C1_ZeroResultsExitNoBooking ==
    ZeroResults => /\ pc = "done"
                   /\ exit_code = 1
                   /\ Posts = {}
                   /\ booking = NotSet

\* a run that met _results = 0 together with a non-empty data list
C1_Witness ==
    /\ ZeroResults
    /\ pc = "done"
    /\ "data" \in DOMAIN flight_search.body
    /\ Len(flight_search.body["data"]) >= 1

\* C2: when the booking response is JSON whose status is not "confirmed",
\* the run has ended with exit code 1 and has printed no PNR; and a PNR is
\* printed only when the booking response has status "confirmed".
C2_RejectedBookingNoPnr ==
    /\ NotConfirmed => /\ pc = "done"
                       /\ exit_code = 1
                       /\ ~PnrPrinted
    /\ PnrPrinted => Confirmed

\* a rejected booking whose body carries a pnr all the same
C2_Witness ==
    /\ NotConfirmed
    /\ "pnr" \in DOMAIN booking.body
    /\ pc = "done"

\* C3: the payload the formatter returns has one of two shapes: with
\* --return N given (N any integer, 0 too) typeFlight is "return" and
\* daysInDestination is N; with --one-way or neither flag given typeFlight
\* is "oneway" and there is no daysInDestination key.
C3_PayloadShape ==
    Formatted =>
        IF Given("--return")
        THEN /\ search_payload["typeFlight"] = StrV("return")
             /\ "daysInDestination" \in DOMAIN search_payload
             /\ search_payload["daysInDestination"] = IntV(ToInt(LastValue("--return")))
        ELSE /\ search_payload["typeFlight"] = StrV("oneway")
             /\ "daysInDestination" \notin DOMAIN search_payload

\* a payload formatted for --return 0
C3_Witness ==
    /\ Formatted
    /\ Given("--return")
    /\ LastValue("--return") = <<"0">>

\* C4, as claimed: a command line with both --one-way and --return N, or both
\* --cheapest and --shortest, ends with exit code 2 before the payload is
\* formatted and before any request.
C4_ConflictExits2 ==
    (HasConflict /\ pc # "parse_args") =>
        /\ pc = "done"
        /\ exit_code = 2
        /\ ~Formatted
        /\ requests = <<>>

\* C4, amended: such a command line ends at argument parsing, before the
\* payload is formatted and before any request, with exit code 2, unless a
\* -h stands before every token the parser rejects: then the help is printed
\* and the exit code is 0.
C4_ConflictEndsAtParsing ==
    (HasConflict /\ pc # "parse_args") =>
        /\ pc = "done"
        /\ exit_code = (IF HelpRun THEN 0 ELSE 2)
        /\ ~Parsed
        /\ ~Formatted
        /\ requests = <<>>

\* a command line with two flags that exclude each other and no -h, rejected
C4_Witness ==
    /\ HasConflict
    /\ ~Given("-h")
    /\ pc = "done"
    /\ exit_code = 2

\* the text is YYYY-MM-DD, four, two and two digits, and names a date
StrictIso(s) ==
    /\ Len(s) = 10
    /\ s[5] = "-" /\ s[8] = "-"
    /\ \A i \in {1, 2, 3, 4, 6, 7, 9, 10} : s[i] \in Digits
    /\ valid_date(ToInt(SubSeq(s, 1, 4)), ToInt(SubSeq(s, 6, 7)), ToInt(SubSeq(s, 9, 10)))

\* DD/MM/YYYY with the digits of YYYY-MM-DD
DayMonthYear(s) == <<s[9], s[10], "/", s[6], s[7], "/", s[1], s[2], s[3], s[4]>>

\* parsing the text as day/month/year and writing it as ISO gives s
RoundTrips(text, s) ==
    LET back == strptime(text, FMT_API) IN
    /\ back.ok
    /\ IsoText(Pad(back.year, 4), Pad(back.month, 2), Pad(back.day, 2)) = s

\* C5, as claimed: for a valid date given as YYYY-MM-DD the payload's
\* dateFrom is DD/MM/YYYY, two, two and four digits of the same date, which
\* parsed as day/month/year and written as ISO gives the date again; any
\* other text ends the run with exit code 2.
C5_DateReformatted ==
    FormatCalled =>
        LET D == parsed_args["dateFrom"].v IN
        IF StrictIso(D)
        THEN /\ Formatted
             /\ search_payload["dateFrom"] = StrV(DayMonthYear(D))
             /\ RoundTrips(search_payload["dateFrom"].v, D)
        ELSE /\ pc = "done"
             /\ exit_code = 2
             /\ ~Formatted

\* C6, as claimed: a run that has ended has exit code 0 exactly when the
\* search had results, the booking was confirmed and the PNR was printed; 1
\* exactly for a connection failure, an undecodable body, zero results or a
\* booking not confirmed; 2 exactly for bad arguments or an unparseable date.
C6_ExitCodeByOutcome ==
    pc = "done" =>
        /\ exit_code \in {0, 1, 2}
        /\ exit_code = 0 <=> Success
        /\ exit_code = 1 <=> (ConnectionFailure \/ Undecodable \/ ZeroResults \/ NotConfirmed)
        /\ exit_code = 2 <=> (BadArguments \/ BadDate)

\* C6, amended: exit code 0 also, and only also, for a run whose -h is
\* reached by the parser (the help is printed, nothing is requested); exit
\* code 1 also, and only also, for an exception nothing catches.
C6_ExitCodeByOutcomeWithHelp ==
    pc = "done" =>
        /\ exit_code \in {0, 1, 2}
        /\ exit_code = 0 <=> (Success \/ HelpRun)
        /\ HelpRun => requests = <<>> /\ stdout = << <<"usage">> >>
        /\ exit_code = 1 <=> (ConnectionFailure \/ Undecodable \/ ZeroResults
                              \/ NotConfirmed \/ Uncaught)
        /\ exit_code = 2 <=> (BadArguments \/ BadDate)

\* a run that ended with a connection failure of the booking request
C6_Witness ==
    /\ pc = "done"
    /\ BookingAnswer("ConnectionError")
    /\ exit_code = 1

\* C7, as claimed: a run makes exactly two network calls, the GET and then
\* the POST.
C7_ExactlyTwoCalls ==
    pc = "done" =>
        /\ Len(requests) = 2
        /\ requests[1].method = "GET"
        /\ requests[2].method = "POST"

\* C7, amended: a run makes at most two network calls, the search GET first
\* and then the booking POST; the POST is issued only after the GET has been
\* answered with a first flight, whose booking token the POST carries; a run
\* that prints a PNR has made exactly the two calls.
C7_GetThenPost ==
    /\ Len(requests) <= 2
    /\ Len(requests) >= 1 => /\ requests[1].method = "GET"
                             /\ requests[1].params = search_payload
    /\ Len(requests) = 2 => /\ requests[2].method = "POST"
                            /\ SomeResults
                            /\ HasFirstToken
                            /\ requests[2].json.booking_token = FirstToken
    /\ PnrPrinted => Len(requests) = 2

\* a run that printed a PNR after the two calls
C7_Witness ==
    /\ pc = "done"
    /\ PnrPrinted
    /\ Len(requests) = 2

Failed ==
    \/ FormatCalled /\ ~strptime(parsed_args["dateFrom"].v, FMT_ISO).ok
    \/ ConnectionFailure
    \/ Undecodable
    \/ ZeroResults
    \/ NotConfirmed

\* C9: the GET is issued at most once and the POST at most once, and once a
\* failure has happened no step issues a request.
C9_NoRetry ==
    /\ [](Cardinality(Gets) <= 1 /\ Cardinality(Posts) <= 1)
    /\ [][Failed => requests' = requests]_vars

\* a run whose search request met a connection failure
C9_Witness ==
    /\ SearchAnswer("ConnectionError")
    /\ Len(requests) = 1
    /\ pc = "done"

\* C10, as claimed: after format_payload_for_get_request the arguments are
\* as parsed (dateFrom the text given, daysInDestination and typeFlight as
\* parsed), and a second call on them returns the same payload.
C10_ArgsUnchanged ==
    FormatCalled =>
        /\ args = parsed_args
        /\ Formatted =>
            \A pads_Y \in BOOLEAN :
                format_payload_for_get_request(args, pads_Y).end = Return(search_payload)

====
